---- MODULE Spec2Model ----
(***************************************************************************)
(* SyncNaiveLru (sync_naive_lru/src/lru.rs, iter.rs): an LRU cache made of *)
(* a HashMap from key to node and a doubly linked list of nodes.           *)
(*                                                                         *)
(* A node lives on a heap, `nodes`, under an identity that is never        *)
(* reused.  `next`, `head`, `tail` and the map's values are Rc (strong)    *)
(* references, `prev` is a Weak reference: a node is freed as soon as no   *)
(* strong reference to it is left, and a Weak to a freed node no longer    *)
(* upgrades.  None is the absent Option.                                   *)
(***************************************************************************)
EXTENDS Integers, Sequences, FiniteSets, TLC

\* ---------------------------------------------------------------- bounds
MaxKey == 3
MaxCapacity == 3
MaxCalls == 5

\* usize::MAX.  2^64 - 1 is beyond TLC's integers: the model's usize is as
\* wide as TLC's integers are, and usize::MAX is the largest of them.
UsizeMax == 2147483647

Keys == 1 .. MaxKey
Capacities == (0 .. MaxCapacity) \cup {UsizeMax}

None == 0
NoPanic == "none"

VARIABLES
    capacity,         \* SyncNaiveLru.capacity
    map,              \* SyncNaiveLru.map: key -> node
    head,             \* SyncNaiveLru.head
    tail,             \* SyncNaiveLru.tail
    nodes,            \* the heap: node -> [next, prev, key, value]
    panic,            \* NoPanic, or the panic that unwound the last call
    overflow_checks,  \* the build: are integer overflows checked (debug) or not
    ncalls,           \* number of insert and get calls made
    nalloc,           \* number of nodes allocated so far
    call,             \* the last call: [op, key, value, ret]
    pre,              \* the cache as it was when the last call began
    access,           \* keys in the order of their last access, oldest first
    written,          \* key -> the value of the last insert of that key
    ref,              \* the reference LRU: <<key, value>> pairs, oldest first
    fresh_only,       \* has every insert so far been of a key not present
    pc,               \* "live", or "iter" once into_iter has consumed the cache
    current,          \* IntoIter.current
    yielded           \* the items IntoIter::next has returned so far

vars == <<capacity, map, head, tail, nodes, panic, overflow_checks, ncalls,
          nalloc, call, pre, access, written, ref, fresh_only, pc, current,
          yielded>>

\* ------------------------------------------------------------ the cache
Range(f) == {f[x] : x \in DOMAIN f}

\* Option<V>: None is <<>>, Some(v) is <<v>>.
Some(v) == <<v>>

Self ==
    [capacity |-> capacity, map |-> map, head |-> head, tail |-> tail,
     nodes |-> nodes, panic |-> panic]

NewNode(key, value) ==
    [next |-> None, prev |-> None, key |-> key, value |-> value]

\* Rc: every node that no map value, head, tail, local variable or next link
\* of a node still allocated refers to is freed, and so on for what it held.
RECURSIVE Drop(_, _)
Drop(c, locals) ==
    LET held == Range(c.map) \cup {c.head, c.tail} \cup locals
                  \cup {c.nodes[m].next : m \in DOMAIN c.nodes}
        live == DOMAIN c.nodes \cap held
    IN  IF live = DOMAIN c.nodes
        THEN c
        ELSE Drop([c EXCEPT !.nodes = [n \in live |-> c.nodes[n]]], locals)

\* Weak::upgrade
Upgrade(c, weak) == IF weak \in DOMAIN c.nodes THEN weak ELSE None

Panic(c, what) == [c EXCEPT !.panic = what]

\* HashMap::insert that leaves the node of a key it already holds
MapInsertKeepsOld(m, key, node) ==
    [k \in DOMAIN m \cup {key} |-> IF k \in DOMAIN m THEN m[k] ELSE node]

\* HashMap::insert, HashMap::remove
MapInsert(m, key, node) ==
    [k \in DOMAIN m \cup {key} |-> IF k = key THEN node ELSE m[k]]

MapRemove(m, key) == [k \in DOMAIN m \ {key} |-> m[k]]

\* usize arithmetic: x + 1 overflows at usize::MAX, and wraps to 0 when the
\* build does not check overflows
Overflows(x) == x = UsizeMax
AddOne(x) == IF x = UsizeMax THEN 0 ELSE x + 1

\* Attach that leaves the node's prev link as it was
AttachKeepsPrev(c, node) ==
    IF c.head # None
    THEN LET n1 == [c.nodes EXCEPT ![node].next = None]
             n2 == [n1 EXCEPT ![c.head].next = node]
         IN  Drop([c EXCEPT !.nodes = n2, !.head = node], {})
    ELSE Drop([c EXCEPT !.tail = node, !.head = node], {})

\* Attach that forgets the tail of an empty list
AttachKeepsTail(c, node) ==
    IF c.head # None
    THEN LET n1 == [c.nodes EXCEPT ![node].prev = c.head, ![node].next = None]
             n2 == [n1 EXCEPT ![c.head].next = node]
         IN  Drop([c EXCEPT !.nodes = n2, !.head = node], {})
    ELSE Drop([c EXCEPT !.head = node], {})

Attach(c, node) ==
    IF c.head # None
    THEN LET n1 == [c.nodes EXCEPT ![node].prev = c.head, ![node].next = None]
             n2 == [n1 EXCEPT ![c.head].next = node]
         IN  Drop([c EXCEPT !.nodes = n2, !.head = node], {})
    ELSE Drop([c EXCEPT !.tail = node, !.head = node], {})

\* DetachPrev that leaves the predecessor's next link as it was
DetachPrevKeepsLink(c, node) ==
    LET n == c.nodes[node]
    IN  IF n.prev # None
        THEN LET prev == Upgrade(c, n.prev)
             IN  IF prev = None
                 THEN Panic(c, "previous is not None")
                 ELSE IF prev = node
                 THEN Panic(c, "already borrowed")
                 ELSE c
        ELSE Drop([c EXCEPT !.tail = n.next], {node})

\* DetachPrev that clears the predecessor's next link but, when the node
\* is the head, cuts the predecessor off its own predecessor too
DetachPrevCutsPrev(c, node) ==
    LET n == c.nodes[node]
    IN  IF n.prev # None
        THEN LET prev == Upgrade(c, n.prev)
             IN  IF prev = None
                 THEN Panic(c, "previous is not None")
                 ELSE IF prev = node
                 THEN Panic(c, "already borrowed")
                 ELSE Drop([c EXCEPT !.nodes[prev].next = n.next,
                                     !.nodes[prev].prev = None], {node})
        ELSE Drop([c EXCEPT !.tail = n.next], {node})

DetachPrev(c, node) ==
    LET n == c.nodes[node]
    IN  IF n.prev # None
        THEN LET prev == Upgrade(c, n.prev)
             IN  IF prev = None
                 THEN Panic(c, "previous is not None")
                 ELSE IF prev = node
                 THEN Panic(c, "already borrowed")
                 ELSE Drop([c EXCEPT !.nodes[prev].next = n.next], {node})
        ELSE Drop([c EXCEPT !.tail = n.next], {node})

\* DetachNext that leaves the successor's prev link as it was
DetachNextKeepsPrev(c, node) ==
    LET n == c.nodes[node]
    IN  IF n.next # None
        THEN IF n.next = node
             THEN Panic(c, "already borrowed")
             ELSE c
        ELSE Drop([c EXCEPT !.head = Upgrade(c, n.prev)], {node})

\* DetachNext that leaves head as it was
DetachNextKeepsHead(c, node) ==
    LET n == c.nodes[node]
    IN  IF n.next # None
        THEN IF n.next = node
             THEN Panic(c, "already borrowed")
             ELSE [c EXCEPT !.nodes[n.next].prev = n.prev]
        ELSE c

DetachNext(c, node) ==
    LET n == c.nodes[node]
    IN  IF n.next # None
        THEN IF n.next = node
             THEN Panic(c, "already borrowed")
             ELSE [c EXCEPT !.nodes[n.next].prev = n.prev]
        ELSE Drop([c EXCEPT !.head = Upgrade(c, n.prev)], {node})

Detach(c, node) ==
    LET c1 == DetachPrev(c, node)
    IN  IF c1.panic # NoPanic THEN c1 ELSE DetachNext(c1, node)

\* Evict that takes the most recently used end of the list
EvictHead(c) ==
    IF c.head = None
    THEN Panic(c, "There must be at least 1 element")
    ELSE LET t == c.head
             c1 == Drop([c EXCEPT !.map = MapRemove(c.map, c.nodes[t].key)], {t})
             c2 == Detach(c1, t)
         IN  Drop(c2, {})

Evict(c) ==
    IF c.tail = None
    THEN Panic(c, "There must be at least 1 element")
    ELSE LET t == c.tail
             c1 == Drop([c EXCEPT !.map = MapRemove(c.map, c.nodes[t].key)], {t})
             c2 == Detach(c1, t)
         IN  Drop(c2, {})

Insert(c, key, value, node) ==
    LET c1 == Drop([c EXCEPT !.nodes = (node :> NewNode(key, value)) @@ c.nodes,
                             !.map = MapInsert(c.map, key, node)], {node})
        c2 == Attach(c1, node)
    IN  IF Overflows(c2.capacity) /\ overflow_checks
        THEN Panic(c2, "attempt to add with overflow")
        ELSE IF Cardinality(DOMAIN c2.map) = AddOne(c2.capacity)
        THEN Evict(c2)
        ELSE c2

\* HashMap::get(key).cloned()
MapGet(m, key) == IF key \in DOMAIN m THEN m[key] ELSE None

\* Get with the lookup miss handled as a hit of the least recently used entry
GetMissPromotesTail(c, key) ==
    LET node == IF MapGet(c.map, key) # None THEN MapGet(c.map, key) ELSE c.tail
    IN  IF node # None
        THEN LET c1 == Detach(c, node)
                 c2 == IF c1.panic # NoPanic THEN c1 ELSE Attach(c1, node)
             IN  [cache |-> c2,
                  ret |-> IF c2.panic # NoPanic \/ MapGet(c.map, key) = None
                          THEN <<>> ELSE Some(c2.nodes[node].value)]
        ELSE [cache |-> c, ret |-> <<>>]

\* Get that detaches the node and does not attach it again
GetWithoutAttach(c, key) ==
    IF MapGet(c.map, key) # None
    THEN LET node == MapGet(c.map, key)
             c1 == Detach(c, node)
         IN  [cache |-> c1,
              ret |-> IF c1.panic # NoPanic THEN <<>> ELSE Some(c1.nodes[node].value)]
    ELSE [cache |-> c, ret |-> <<>>]

\* [cache, ret]
Get(c, key) ==
    IF MapGet(c.map, key) # None
    THEN LET node == MapGet(c.map, key)
             c1 == Detach(c, node)
             c2 == IF c1.panic # NoPanic THEN c1 ELSE Attach(c1, node)
         IN  [cache |-> c2,
              ret |-> IF c2.panic # NoPanic THEN <<>> ELSE Some(c2.nodes[node].value)]
    ELSE [cache |-> c, ret |-> <<>>]

\* ------------------------------------------------------------ history
Snapshot ==
    [map |-> map, head |-> head, tail |-> tail, nodes |-> nodes,
     access |-> access, ref |-> ref]

\* the value of the last insert of each key
Written(w, key, value) ==
    [k \in DOMAIN w \cup {key} |-> IF k = key THEN value ELSE w[k]]

Touch(seq, key) == SelectSeq(seq, LAMBDA k : k # key) \o <<key>>

\* The reference LRU: a sequence of at most `cap` pairs in the order of their
\* last access.  An insert puts the pair last and drops the first pair when
\* the bound is exceeded; a get of a key it holds moves the pair last.
RefKeys(r) == {r[i][1] : i \in DOMAIN r}

RefValue(r, key) == r[CHOOSE i \in DOMAIN r : r[i][1] = key][2]

RefInsert(r, cap, key, value) ==
    LET r1 == SelectSeq(r, LAMBDA item : item[1] # key) \o <<<<key, value>>>>
    IN  IF Len(r1) > cap THEN Tail(r1) ELSE r1

RefGet(r, key) ==
    IF key \in RefKeys(r)
    THEN [ref |-> SelectSeq(r, LAMBDA item : item[1] # key)
                    \o <<<<key, RefValue(r, key)>>>>,
          ret |-> Some(RefValue(r, key))]
    ELSE [ref |-> r, ret |-> <<>>]

\* ------------------------------------------------------------ actions
Init ==
    /\ capacity \in Capacities
    /\ overflow_checks \in (IF capacity = UsizeMax THEN BOOLEAN ELSE {TRUE})
    /\ map = <<>>
    /\ head = None
    /\ tail = None
    /\ nodes = <<>>
    /\ panic = NoPanic
    /\ ncalls = 0
    /\ nalloc = 0
    /\ call = [op |-> "new", key |-> None, value |-> None, node |-> None,
               ret |-> <<>>]
    /\ pre = [map |-> <<>>, head |-> None, tail |-> None, nodes |-> <<>>,
              access |-> <<>>, ref |-> <<>>]
    /\ access = <<>>
    /\ written = <<>>
    /\ ref = <<>>
    /\ fresh_only = TRUE
    /\ pc = "live"
    /\ current = None
    /\ yielded = <<>>

Store(c) ==
    /\ map' = c.map
    /\ head' = c.head
    /\ tail' = c.tail
    /\ nodes' = c.nodes
    /\ panic' = c.panic

\* lru.insert(key, value); the value is one no earlier call passed
InsertCall(key) ==
    /\ pc = "live"
    /\ panic = NoPanic
    /\ ncalls < MaxCalls
    /\ LET value == ncalls + 1
       IN  /\ Store(Insert(Self, key, value, nalloc + 1))
           /\ call' = [op |-> "insert", key |-> key, value |-> value,
                       node |-> nalloc + 1, ret |-> <<>>]
           /\ written' = Written(written, key, value)
           /\ ref' = RefInsert(ref, capacity, key, value)
    /\ nalloc' = nalloc + 1
    /\ ncalls' = ncalls + 1
    /\ pre' = Snapshot
    /\ access' = Touch(access, key)
    /\ fresh_only' = (fresh_only /\ MapGet(map, key) = None)
    /\ UNCHANGED <<capacity, overflow_checks, pc, current, yielded>>

\* lru.get(&key)
GetCall(key) ==
    /\ pc = "live"
    /\ panic = NoPanic
    /\ ncalls < MaxCalls
    /\ LET r == Get(Self, key)
       IN  /\ Store(r.cache)
           /\ call' = [op |-> "get", key |-> key, value |-> None,
                       node |-> MapGet(map, key), ret |-> r.ret]
    /\ ncalls' = ncalls + 1
    /\ pre' = Snapshot
    /\ access' = IF key \in DOMAIN map THEN Touch(access, key) ELSE access
    /\ ref' = RefGet(ref, key).ref
    /\ UNCHANGED <<capacity, overflow_checks, nalloc, written, fresh_only, pc,
                   current, yielded>>

\* lru.into_iter(): head moves into the iterator, the rest of the cache is
\* dropped
IntoIterCall ==
    /\ pc = "live"
    /\ panic = NoPanic
    /\ pc' = "iter"
    /\ current' = head
    /\ yielded' = <<>>
    /\ map' = <<>>
    /\ head' = None
    /\ tail' = None
    /\ nodes' = Drop([Self EXCEPT !.map = <<>>, !.head = None, !.tail = None],
                     {head}).nodes
    /\ call' = [op |-> "into_iter", key |-> None, value |-> None, node |-> None,
                ret |-> <<>>]
    /\ pre' = Snapshot
    /\ UNCHANGED <<capacity, panic, overflow_checks, ncalls, nalloc, access,
                   written, ref, fresh_only>>

\* IntoIter::next
IterNext ==
    /\ pc = "iter"
    /\ IF current = None
       THEN /\ call' = [op |-> "next", key |-> None, value |-> None,
                        node |-> None, ret |-> <<>>]
            /\ UNCHANGED <<current, yielded, nodes>>
       ELSE LET item == <<nodes[current].key, nodes[current].value>>
                next == nodes[current].next
            IN  /\ call' = [op |-> "next", key |-> None, value |-> None,
                            node |-> None, ret |-> Some(item)]
                /\ current' = next
                /\ yielded' = Append(yielded, item)
                /\ nodes' = Drop(Self, {next}).nodes
    /\ UNCHANGED <<capacity, map, head, tail, panic, overflow_checks, ncalls,
                   nalloc, pre, access, written, ref, fresh_only, pc>>

Next ==
    \/ \E key \in Keys : InsertCall(key)
    \/ \E key \in Keys : GetCall(key)

Spec == Init /\ [][Next]_vars

\* the cache's life up to and including its consumption by an iterator
NextIter ==
    \/ Next
    \/ IntoIterCall
    \/ IterNext

SpecIter == Init /\ [][NextIter]_vars

\* lru.detach(node) on the node of a key of the index, as the tests
\* detach_head, detach_middle and detach_tail call it
DetachCall(key) ==
    /\ pc = "live"
    /\ panic = NoPanic
    /\ MapGet(map, key) # None
    /\ LET node == MapGet(map, key)
       IN  /\ Store(Drop(Detach(Self, node), {}))
           /\ call' = [op |-> "detach", key |-> key, value |-> None,
                       node |-> node, ret |-> <<>>]
    /\ pc' = "detached"
    /\ pre' = Snapshot
    /\ UNCHANGED <<capacity, overflow_checks, ncalls, nalloc, access, written,
                   ref, fresh_only, current, yielded>>

\* the cache's life ended by a direct detach
NextDetach ==
    \/ Next
    \/ \E key \in Keys : DetachCall(key)

SpecDetach == Init /\ [][NextDetach]_vars

\* ------------------------------------------------------------ properties
Returned(op) == call.op = op /\ panic = NoPanic

Present(key) == key \in DOMAIN pre.map

\* the nodes met when following next from the tail, for at most `fuel` steps
RECURSIVE Walk(_, _, _)
Walk(heap, node, fuel) ==
    IF node = None \/ node \notin DOMAIN heap \/ fuel = 0
    THEN <<>>
    ELSE <<node>> \o Walk(heap, heap[node].next, fuel - 1)

Order(heap, from) == Walk(heap, from, Cardinality(DOMAIN heap) + 1)

Without(seq, node) == SelectSeq(seq, LAMBDA n : n # node)

KeysOf(heap, seq) == {heap[seq[i]].key : i \in DOMAIN seq}

Distinct(seq) == \A i, j \in DOMAIN seq : i # j => seq[i] # seq[j]

\* the least recently accessed key among `among`
Oldest(seq, among) == Head(SelectSeq(seq, LAMBDA k : k \in among))

\* C1: after each insert returns, the index holds at most capacity keys.
CapacityBound ==
    Returned("insert") => Cardinality(DOMAIN map) <= capacity

\* C2: an insert of an absent key into a cache that holds capacity entries
\* removes exactly the least recently accessed key: get of that key returns
\* None afterwards, and every other key that was present is still retrieved
\* with its value.
EvictionOrder ==
    (/\ Returned("insert")
     /\ ~Present(call.key)
     /\ Cardinality(DOMAIN pre.map) = capacity)
    => LET candidates == DOMAIN pre.map \cup {call.key}
           victim == Oldest(Touch(pre.access, call.key), candidates)
       IN  /\ DOMAIN map = candidates \ {victim}
           /\ Get(Self, victim).ret = <<>>
           /\ \A k \in DOMAIN pre.map \ {victim} :
                  Get(Self, k).ret = Some(pre.nodes[pre.map[k]].value)

\* C3: get of a present key returns its value, makes its entry the head and
\* leaves the order of all other entries as it was.
RecencyPromotion ==
    (call.op = "get" /\ Present(call.key))
    => LET node == pre.map[call.key]
           before == Order(pre.nodes, pre.tail)
           after == Order(nodes, tail)
       IN  /\ panic = NoPanic
           /\ call.ret = Some(pre.nodes[node].value)
           /\ head = node
           /\ map = pre.map
           /\ nodes[head].key = call.key
           /\ after = Without(before, node) \o <<node>>
           /\ \A n \in DOMAIN pre.nodes :
                  /\ n \in DOMAIN nodes
                  /\ nodes[n].key = pre.nodes[n].key
                  /\ nodes[n].value = pre.nodes[n].value

\* C3 witness: with capacity 3, get of the middle one of three entries has
\* made it the head.
RecencyPromotionWitness ==
    /\ Returned("get")
    /\ capacity = 3
    /\ Present(call.key)
    /\ Len(Order(pre.nodes, pre.tail)) = 3
    /\ Order(pre.nodes, pre.tail)[2] = pre.map[call.key]
    /\ Order(nodes, tail)[3] = pre.map[call.key]
    /\ call.ret # <<>>

\* C4: insert of a present key leaves the set of keys in the index as it was.
InsertPresentKeepsKeys ==
    (Returned("insert") /\ Present(call.key)) => DOMAIN map = DOMAIN pre.map

\* C5: after insert of a present key the list holds exactly one entry with
\* that key, the head, carrying the new value; and in every state no key
\* occurs in two list entries.
NoDuplicateEntries ==
    LET order == Order(nodes, tail)
    IN  /\ (Returned("insert") /\ Present(call.key))
           => /\ Cardinality({i \in DOMAIN order : nodes[order[i]].key = call.key}) = 1
              /\ head # None
              /\ nodes[head].key = call.key
              /\ nodes[head].value = call.value
        /\ \A i, j \in DOMAIN order :
               i # j => nodes[order[i]].key # nodes[order[j]].key

\* C6: the keys of the index are the keys met on a walk of the list from one
\* end to the other, the walk visits no node twice and takes no more steps
\* than the index has keys.
MapListCoherence ==
    LET order == Order(nodes, tail)
    IN  /\ KeysOf(nodes, order) = DOMAIN map
        /\ Distinct(order)
        /\ Len(order) <= Cardinality(DOMAIN map)

\* C7: with capacity at least 1, get of the key just inserted returns the
\* value just inserted.
ReadYourWrite ==
    (Returned("insert") /\ capacity # 0)
    => Get(Self, call.key).ret = Some(call.value)

\* C8: get of an absent key returns None and changes nothing of the cache.
GetAbsentNoEffect ==
    (call.op = "get" /\ ~Present(call.key))
    => /\ call.ret = <<>>
       /\ panic = NoPanic
       /\ map = pre.map
       /\ head = pre.head
       /\ tail = pre.tail
       /\ nodes = pre.nodes

\* C8 witness: get of an absent key has returned on a cache of two entries.
GetAbsentWitness ==
    /\ Returned("get")
    /\ ~Present(call.key)
    /\ call.ret = <<>>
    /\ Cardinality(DOMAIN pre.map) = 2
    /\ Len(Order(nodes, tail)) = 2

\* the live pairs of a cache from least to most recently used
ExpectedItems(c) ==
    LET keys == SelectSeq(c.access, LAMBDA k : k \in DOMAIN c.map)
    IN  [i \in DOMAIN keys |-> <<keys[i], c.nodes[c.map[keys[i]]].value>>]

\* C9: an iteration that has ended has yielded every live pair once, from
\* least to most recently used.
IterationOrder ==
    (pc = "iter" /\ call.op = "next" /\ call.ret = <<>>)
    => yielded = ExpectedItems(pre)

\* C10: no insert or get call panics.
NoFailure == panic = NoPanic

\* The three panics of lru.rs itself (the expect in insert, the dead prev in
\* detach, a RefCell borrowed twice) are not reached.
NamedPanicsUnreachable ==
    panic \in {NoPanic, "attempt to add with overflow"}

\* C11: head and tail are both absent or both present, and they are absent
\* exactly when the index holds no key.
HeadTailConsistency ==
    /\ (head = None) <=> (tail = None)
    /\ (head = None /\ tail = None) <=> (DOMAIN map = {})

\* C11 witness: get of the only entry has detached it, which cleared both
\* ends, and attached it again.
HeadTailWitness ==
    /\ Returned("get")
    /\ Present(call.key)
    /\ Cardinality(DOMAIN pre.nodes) = 1
    /\ head = tail
    /\ head = call.node
    /\ DOMAIN map = {call.key}

\* a list of `heap` from `t` to `h`: the walk from the tail along next visits
\* no node twice and ends at the head, the tail has no prev, the head has no
\* next, and every node's prev is the node before it
ListWellFormed(heap, h, t) ==
    LET order == Order(heap, t)
    IN  /\ Distinct(order)
        /\ (h = None) <=> (t = None)
        /\ t # None => t \in DOMAIN heap
        /\ order # <<>> =>
               /\ order[Len(order)] = h
               /\ heap[t].prev = None
               /\ heap[h].next = None
               /\ \A i \in 1 .. Len(order) - 1 : heap[order[i + 1]].prev = order[i]

Entries(heap, seq) == [i \in DOMAIN seq |-> <<heap[seq[i]].key, heap[seq[i]].value>>]

\* C12: detach of the head, an interior entry or the tail of a well-formed
\* list of at least two entries leaves a well-formed list of the other
\* entries in their order, ended by head and tail, and the index as it was.
DetachCorrect ==
    (/\ call.op = "detach"
     /\ ListWellFormed(pre.nodes, pre.head, pre.tail)
     /\ Len(Order(pre.nodes, pre.tail)) >= 2)
    => LET before == Order(pre.nodes, pre.tail)
           after == Order(nodes, tail)
       IN  /\ panic = NoPanic
           /\ ListWellFormed(nodes, head, tail)
           /\ after = Without(before, call.node)
           /\ Len(after) = Len(before) - 1
           /\ Entries(nodes, after) = Entries(pre.nodes, after)
           /\ tail = after[1]
           /\ head = after[Len(after)]
           /\ map = pre.map

\* C12 witness: with capacity 3, the middle one of three entries has been
\* detached (the test detach_middle).
DetachMiddleWitness ==
    /\ Returned("detach")
    /\ capacity = 3
    /\ Len(Order(pre.nodes, pre.tail)) = 3
    /\ Order(pre.nodes, pre.tail)[2] = call.node
    /\ Len(Order(nodes, tail)) = 2

\* detach of the head and of the tail of three entries (the tests detach_head
\* and detach_tail)
DetachHeadReached ==
    /\ Returned("detach")
    /\ Len(Order(pre.nodes, pre.tail)) = 3
    /\ pre.head = call.node

DetachTailReached ==
    /\ Returned("detach")
    /\ Len(Order(pre.nodes, pre.tail)) = 3
    /\ pre.tail = call.node

\* the keys an insert took out of the index
Removed == DOMAIN pre.map \ DOMAIN map

\* C13: an insert removes at most one key from the index, and one only when
\* the index held capacity keys before the call; before any insert the index
\* holds at most capacity keys.
InsertEvictsAtMostOne ==
    Returned("insert")
    => /\ Cardinality(Removed) <= 1
       /\ Removed # {} => Cardinality(DOMAIN pre.map) = capacity
       /\ Cardinality(DOMAIN pre.map) <= capacity

\* an insert removes at most one key (the part of C13 the code keeps)
InsertRemovesAtMostOne == Returned("insert") => Cardinality(Removed) <= 1

\* C14: a get leaves the keys of the index, the value of each key and the
\* number of list nodes as they were; only the matched entry moves.
GetKeepsEntries ==
    call.op = "get"
    => LET before == Order(pre.nodes, pre.tail)
           after == Order(nodes, tail)
       IN  /\ panic = NoPanic
           /\ DOMAIN map = DOMAIN pre.map
           /\ \A k \in DOMAIN map :
                  nodes[map[k]].value = pre.nodes[pre.map[k]].value
           /\ Len(after) = Len(before)
           /\ DOMAIN nodes = DOMAIN pre.nodes
           /\ Entries(nodes, before) = Entries(pre.nodes, before)
           /\ Without(after, call.node) = Without(before, call.node)

\* C14 witness: get has moved the least recently used of at least two
\* entries.
GetKeepsEntriesWitness ==
    /\ Returned("get")
    /\ Present(call.key)
    /\ Len(Order(pre.nodes, pre.tail)) >= 2
    /\ pre.tail = call.node
    /\ tail # pre.tail
    /\ head = call.node

\* C15: next and prev are inverse of each other, the tail has no prev, the
\* head has no next, and following next from the tail reaches the head after
\* visiting every node exactly once; no prev refers to a node that is gone.
LinksWellFormed ==
    LET order == Order(nodes, tail)
    IN  /\ ListWellFormed(nodes, head, tail)
        /\ {order[i] : i \in DOMAIN order} = DOMAIN nodes
        /\ \A n, m \in DOMAIN nodes : (nodes[n].next = m) <=> (nodes[m].prev = n)
        /\ \A n \in DOMAIN nodes :
               /\ nodes[n].prev # None => nodes[n].prev \in DOMAIN nodes
               /\ nodes[n].next # None => nodes[n].next \in DOMAIN nodes

\* C15 witness: an eviction has freed the tail of a full list of two and
\* its successor is the new tail.
LinksWitness ==
    /\ Returned("insert")
    /\ capacity = 2
    /\ Len(Order(pre.nodes, pre.tail)) = 2
    /\ pre.tail \notin DOMAIN nodes
    /\ tail = pre.nodes[pre.tail].next
    /\ Len(Order(nodes, tail)) = 2

\* C16: detach of the only entry of the list leaves head and tail absent;
\* with capacity 0 every insert evicts the entry it added: the index is
\* empty, head and tail are absent and get of the inserted key returns None.
SoleEntryRemoval ==
    /\ (call.op = "detach" /\ Len(Order(pre.nodes, pre.tail)) = 1)
       => /\ panic = NoPanic
          /\ head = None
          /\ tail = None
    /\ (call.op = "insert" /\ capacity = 0)
       => /\ panic = NoPanic
          /\ DOMAIN map = {}
          /\ head = None
          /\ tail = None
          /\ call.node \notin DOMAIN nodes
          /\ Get(Self, call.key).ret = <<>>

\* C16 witness: with capacity 0 a second insert has evicted, by a detach of
\* the only entry, the node it added.
SoleEntryWitness ==
    /\ Returned("insert")
    /\ capacity = 0
    /\ ncalls >= 2
    /\ pre.head = None
    /\ head = None
    /\ call.node \notin DOMAIN nodes

\* a direct detach of the only entry
SoleDetachReached ==
    /\ Returned("detach")
    /\ Len(Order(pre.nodes, pre.tail)) = 1
    /\ head = None

\* C17: get of a present key, repeated at once, returns the same value and
\* leaves the cache as the first get left it; get of the head, and so of a
\* sole entry, leaves the cache as it was.
GetIdempotent ==
    (call.op = "get" /\ Present(call.key))
    => /\ Get(Self, call.key) = [cache |-> Self, ret |-> call.ret]
       /\ call.ret # <<>>
       /\ pre.head = call.node
          => /\ map = pre.map
             /\ head = pre.head
             /\ tail = pre.tail
             /\ nodes = pre.nodes

\* C17 witness: get of the key that was already the head of at least two
\* entries, as a second get in a row is.
GetIdempotentWitness ==
    /\ Returned("get")
    /\ Present(call.key)
    /\ pre.head = call.node
    /\ Len(Order(pre.nodes, pre.tail)) >= 2
    /\ nodes = pre.nodes
    /\ head = call.node

\* C18: a value get returns is the value of the last insert of that key.
GetNeverStale ==
    (call.op = "get" /\ call.ret # <<>>)
    => /\ call.key \in DOMAIN written
       /\ call.ret = Some(written[call.key])

\* C18 witness: get has returned the value of the second insert of a key
\* while the node of the first insert was still in the list.
GetNeverStaleWitness ==
    /\ Returned("get")
    /\ call.ret # <<>>
    /\ \E n \in DOMAIN pre.nodes :
           /\ n # call.node
           /\ pre.nodes[n].key = call.key
           /\ Some(pre.nodes[n].value) # call.ret

\* C19: as long as every insert was of a key not present, and capacity is at
\* least 1, the cache and the reference LRU agree: every get returns what
\* the reference returns, and after every call the list holds the reference's
\* pairs in its order and the index holds its keys.
RefinesReference ==
    (fresh_only /\ capacity >= 1)
    => LET order == Order(nodes, tail)
       IN  /\ Entries(nodes, order) = ref
           /\ DOMAIN map = RefKeys(ref)
           /\ \A k \in DOMAIN map :
                  /\ \E i \in DOMAIN order : order[i] = map[k]
                  /\ nodes[map[k]].key = k
                  /\ nodes[map[k]].value = RefValue(ref, k)
           /\ call.op = "get" => call.ret = RefGet(pre.ref, call.key).ret

\* C19 witness: with capacity 2 and fresh keys only, an insert has evicted
\* the entry a get had left least recently used, not the oldest insert.
RefinesWitness ==
    /\ Returned("insert")
    /\ fresh_only
    /\ capacity = 2
    /\ Len(ref) = 2
    /\ pre.tail \notin DOMAIN nodes
    /\ pre.nodes[pre.tail].value > ref[1][2]

====
